---- MODULE Spec2Model ----
(***************************************************************************)
(* Frame reconstruction and register control of the nsCamera sensor        *)
(* modules.                                                                *)
(*                                                                         *)
(*   s4.parseReadoff        src/nsCamera/sensors/s4.py       193-230       *)
(*   hyperion.parseReadoff  src/nsCamera/sensors/hyperion.py 343-349       *)
(*   hyperion.columnTestEnable, columnTestDisable            160-166       *)
(*   hyperion.selectTrigLatchEn                              168-201       *)
(*                                                                         *)
(* Arrays are sequences: a 2-D array is a sequence of rows, a 3-D array a  *)
(* sequence of 2-D arrays.  Indices are 1-based here and 0-based in the    *)
(* source.                                                                 *)
(*                                                                         *)
(* Scale.  interlace_arrays hard-codes the one shape it accepts,           *)
(* (1024, 512), and the number of column groups, 16 (so 32 columns per     *)
(* group).  Buffers of 2*1024*512 samples cannot be enumerated, so the     *)
(* three numbers are scaled down to ReqHeight, NumGroups and GroupWidth    *)
(* (ReqWidth = NumGroups * GroupWidth, as 512 = 16 * 32).  Everything else *)
(* is computed from them exactly as the source computes it from 1024, 512  *)
(* and 16.                                                                 *)
(***************************************************************************)
EXTENDS Integers, Sequences, FiniteSets, TLC

\* ------------------------------------------------------------------ scale
\* rows of the only shape interlace_arrays accepts (1024 in s4.py:202)
ReqHeight == 2
\* sections np.split cuts each subframe into (16 in s4.py:206)
NumGroups == 2
\* columns per group (32 = 512 / 16 in the source)
GroupWidth == 2
\* largest self.nframes explored
MaxFrames == 4
\* largest columns argument handed to hyperion.parseReadoff
MaxColumns == 3

\* columns of the only shape interlace_arrays accepts (512 in s4.py:202)
ReqWidth == NumGroups * GroupWidth

\* s4.bytesperpixel: samples are unsigned 16-bit
bytesperpixel == 2
MaxPixel == (2 ^ (8 * bytesperpixel)) - 1

Callers == {1, 2}

\* ------------------------------------------------------------- geometry
\* The fields parseReadoff reads from the sensor object.  __init__ sets
\* (nframes, height, width) = (2, 1024, 512); the owner of the object may
\* assign other values before a readout.
DefaultGeometry == [nframes |-> 2, height |-> ReqHeight, width |-> ReqWidth]

Heights == {ReqHeight, ReqHeight + 1, 4}
Widths == {ReqWidth, ReqWidth - 1, GroupWidth, 4}
Geometries == [nframes : 1..MaxFrames, height : Heights, width : Widths]

\* ------------------------------------------------------------ raw input
\* A raw capture is identified by a sample pattern and by how far its
\* length is from nframes*height*width.
\*   "index": sample i holds i (every sample distinct)
\*   "sub"  : every sample of subframe f holds f+1 (A all 1s, B all 2s, ...)
\*   "top"  : distinct samples counting down from the largest 16-bit value
Kinds == {"index", "sub", "top"}
LenOffsets == {-1, 0, 1}
Inputs == [kind : Kinds, off : LenOffsets]
NoInput == [kind |-> "none", off |-> 0]

Size(g) == g.nframes * g.height * g.width

Sample(kind, i, g) ==
    CASE kind = "index" -> i
      [] kind = "sub" -> (i \div (g.height * g.width)) + 1
      [] kind = "top" -> MaxPixel - i

MakeRaw(in, g) ==
    [i \in 1..(Size(g) + in.off) |-> Sample(in.kind, i - 1, g)]

\* -------------------------------------------------------- numpy helpers
RECURSIVE Concat(_)
\* concatenation of a sequence of sequences, in order
Concat(ss) == IF ss = <<>> THEN <<>> ELSE Head(ss) \o Concat(Tail(ss))

\* ndarray.shape of a 2-D array
Shape(a) == <<Len(a), IF Len(a) = 0 THEN 0 ELSE Len(a[1])>>

\* a size test that lets a longer buffer through (the surplus is cut off)
ReshapeFitsLoose(len, n) == len >= n

\* np.reshape's size test: the new shape must hold exactly the elements
ReshapeFits(len, n) == len = n

\* np.reshape(flat, (n, h, w)), C order
Reshape3(flat, n, h, w) ==
    [f \in 1..n |-> [r \in 1..h |-> [c \in 1..w |->
        flat[((f - 1) * h + (r - 1)) * w + c]]]]

\* ndarray.reshape((h, w)) of a flat buffer, C order
Reshape2(flat, h, w) ==
    [r \in 1..h |-> [c \in 1..w |-> flat[(r - 1) * w + c]]]

\* the elements of a list of 2-D arrays in C order (np.array of the list,
\* then ravel); the empty list gives the empty buffer
Ravel(arrays) == Concat([m \in 1..Len(arrays) |-> Concat(arrays[m])])

\* np.split(a, sections, axis=1): sections equal column blocks, left to right
Split(a, sections) ==
    LET gw == Shape(a)[2] \div sections
    IN  [j \in 1..sections |->
            [r \in 1..Len(a) |-> SubSeq(a[r], (j - 1) * gw + 1, j * gw)]]

\* np.concatenate(groups, axis=0): the groups stacked as rows
ConcatRows(groups) == Concat(groups)

\* np.concatenate(groups, axis=1)
ConcatCols(groups) ==
    IF groups = <<>> THEN <<>>
    ELSE [r \in 1..Len(groups[1]) |->
            Concat([m \in 1..Len(groups) |-> groups[m][r]])]

\* astype(np.int32) of one non-negative sample: two's complement on the
\* high half-word, the low half-word kept
AsInt32(v) ==
    LET hi == (v \div 65536) % 65536
        lo == v % 65536
    IN  IF hi >= 32768 THEN (hi - 65536) * 65536 + lo ELSE hi * 65536 + lo

AsType(a) == [r \in 1..Len(a) |-> [c \in 1..Len(a[r]) |-> AsInt32(a[r][c])]]

\* -------------------------------------------------------------- results
NoFrame == <<>>
NoResult == [status |-> "none", site |-> 0, frame |-> NoFrame]
Ok(frame) == [status |-> "ok", site |-> 0, frame |-> frame]
\* an exception leaving parseReadoff: its class and the line that raises it
Raise(class, line) == [status |-> class, site |-> line, frame |-> NoFrame]

\* --------------------------------------------------- s4.interlace_arrays
\* the two appends of lines 212-213 in the other order: g2, g1, g2, g1, ...
InterlaceSwapped(groups1, groups2) ==
    [m \in 1..(2 * Len(groups1)) |->
        IF m % 2 = 1 THEN groups2[(m + 1) \div 2] ELSE groups1[m \div 2]]

\* the zip loop of lines 211-213: g1, g2, g1, g2, ...
Interlace(groups1, groups2) ==
    [m \in 1..(2 * Len(groups1)) |->
        IF m % 2 = 1 THEN groups1[(m + 1) \div 2] ELSE groups2[m \div 2]]

\* interlace_arrays without the two shape assertions
interlace_arrays_unchecked(array1, array2) ==
    IF Shape(array1)[2] % NumGroups # 0 THEN Raise("ValueError", 206)
    ELSE Ok(ConcatCols(Interlace(Split(array1, NumGroups), Split(array2, NumGroups))))

interlace_arrays(array1, array2) ==
    IF Shape(array1) # <<ReqHeight, ReqWidth>> THEN Raise("AssertionError", 202)
    ELSE IF Shape(array2) # <<ReqHeight, ReqWidth>> THEN Raise("AssertionError", 203)
    ELSE IF Shape(array1)[2] % NumGroups # 0 THEN Raise("ValueError", 206)
    ELSE Ok(ConcatCols(Interlace(Split(array1, NumGroups), Split(array2, NumGroups))))

\* ------------------------------------------------------------------ state
VARIABLES
    self,       \* the s4 object's nframes, height, width
    threads,    \* the callers that use the s4 object
    pc,         \* each caller's position in parseReadoff
    inp,        \* the identity of the raw capture a caller passed
    buf,        \* the contents of the caller's raw buffer
    cube,       \* local frames after line 221
    k,          \* the pair the loop of line 223 is at
    s4_frames,  \* local list s4_frames, by storage cell
    result,     \* what the call returned or raised
    last,       \* a call that returned earlier, and its outcome
    hpc,        \* position in hyperion.parseReadoff
    hargs,      \* its arguments (frames, columns)
    caCalls,    \* the calls ca.partition has received
    hresult,    \* what hyperion.parseReadoff returned
    regs,       \* the board's registers and subregisters the hyperion writes
    lastOp      \* the last hyperion control call: argument, writes, outcome

s4vars == <<self, threads, pc, inp, buf, cube, k, s4_frames, result, last>>
ctlvars == <<regs, lastOp>>
hvars == <<hpc, hargs, caCalls, hresult, regs, lastOp>>
vars == <<self, threads, pc, inp, buf, cube, k, s4_frames, result, last,
          hpc, hargs, caCalls, hresult, regs, lastOp>>

\* one list that every invocation uses
SharedCell(c) == 1

\* the storage cell of a caller's s4_frames: line 220 binds a fresh list in
\* every invocation, so each caller has its own
FramesCell(c) == c

NoCall == [inp |-> NoInput, result |-> NoResult]
NoArgs == [frames |-> <<>>, columns |-> 0]

S4Idle ==
    /\ pc = [c \in Callers |-> "idle"]
    /\ inp = [c \in Callers |-> NoInput]
    /\ buf = [c \in Callers |-> <<>>]
    /\ cube = [c \in Callers |-> <<>>]
    /\ k = [c \in Callers |-> 0]
    /\ s4_frames = [c \in Callers |-> <<>>]
    /\ result = [c \in Callers |-> NoResult]
    /\ last = NoCall

HIdle ==
    /\ hpc = "idle"
    /\ hargs = NoArgs
    /\ caCalls = <<>>
    /\ hresult = <<>>

\* ------------------------------------------------------------ registers
\* hyperion.sensorSpecific: the defaults the camera assembly installs
sensorSpecific ==
    << <<"ICARUS_VER_SEL", "00000000">>,
       <<"FPA_FRAME_INITIAL", "00000000">>,
       <<"FPA_FRAME_FINAL", "00000001">>,
       <<"FPA_ROW_INITIAL", "00000000">>,
       <<"FPA_ROW_FINAL", "000003FF">>,
       <<"HS_TIMING_DATA_BHI", "00000000">>,
       <<"HS_TIMING_DATA_BLO", "00006666">>,
       <<"HS_TIMING_DATA_AHI", "00000000">>,
       <<"HS_TIMING_DATA_ALO", "00006666">>,
       <<"FPA_DIVCLK_EN_ADDR", "00000000">> >>

\* the two-bit values OSC_SELECT can hold
OscCodes == {"00", "01", "10", "11"}

RegNames == {sensorSpecific[i][1] : i \in 1..Len(sensorSpecific)} \cup {"OSC_SELECT"}

\* the value sensorSpecific installs for a register
DefaultOf(name) ==
    LET i == CHOOSE j \in 1..Len(sensorSpecific) : sensorSpecific[j][1] = name
    IN  sensorSpecific[i][2]

\* the registers after the defaults are installed; OSC_SELECT is not among
\* them (its line is commented out), so it holds what the board had
Installed(osc) ==
    [name \in RegNames |-> IF name = "OSC_SELECT" THEN osc ELSE DefaultOf(name)]

\* a register write by the camera assembly
Write(name, value) == <<name, value>>

RECURSIVE Apply(_, _)
\* the registers after a list of writes, in order
Apply(r, writes) ==
    IF writes = <<>> THEN r
    ELSE Apply([r EXCEPT ![Head(writes)[1]] = Head(writes)[2]], Tail(writes))

NoTrig == [none |-> TRUE, s |-> <<>>]
NoOp == [op |-> "none", arg |-> NoTrig, writes |-> <<>>, ret |-> "none", pre |-> "00"]

CtlIdle(osc) ==
    /\ regs = Installed(osc)
    /\ lastOp = [NoOp EXCEPT !.pre = osc]

Init ==
    /\ self \in Geometries
    /\ threads = {1}
    /\ S4Idle
    /\ HIdle
    /\ CtlIdle("00")

\* ------------------------------------------------------- s4.parseReadoff
\* a caller hands a raw capture to parseReadoff
Call(c) ==
    /\ pc[c] = "idle"
    /\ \E in \in Inputs :
        /\ Size(self) + in.off >= 0
        /\ inp' = [inp EXCEPT ![c] = in]
        /\ buf' = [buf EXCEPT ![c] = MakeRaw(in, self)]
    /\ pc' = [pc EXCEPT ![c] = "l220"]
    /\ result' = [result EXCEPT ![c] = NoResult]
    /\ UNCHANGED <<self, threads, cube, k, s4_frames, last, hvars>>

\* line 220 left out: the list of the call before is used again
NewListKept(c) ==
    /\ pc[c] = "l220"
    /\ pc' = [pc EXCEPT ![c] = "l221"]
    /\ UNCHANGED <<self, threads, inp, buf, cube, k, s4_frames, result, last, hvars>>

\* line 220: s4_frames = []
NewList(c) ==
    /\ pc[c] = "l220"
    /\ s4_frames' = [s4_frames EXCEPT ![FramesCell(c)] = <<>>]
    /\ pc' = [pc EXCEPT ![c] = "l221"]
    /\ UNCHANGED <<self, threads, inp, buf, cube, k, result, last, hvars>>

\* line 221: frames = np.reshape(frames, (self.nframes, self.height, self.width))
ReshapeStep(c) ==
    /\ pc[c] = "l221"
    /\ IF ReshapeFits(Len(buf[c]), Size(self))
       THEN /\ cube' = [cube EXCEPT ![c] =
                    Reshape3(buf[c], self.nframes, self.height, self.width)]
            /\ k' = [k EXCEPT ![c] = 1]
            /\ pc' = [pc EXCEPT ![c] = "l223"]
            /\ UNCHANGED result
       ELSE /\ result' = [result EXCEPT ![c] = Raise("ValueError", 221)]
            /\ pc' = [pc EXCEPT ![c] = "done"]
            /\ UNCHANGED <<cube, k>>
    /\ UNCHANGED <<self, threads, inp, buf, s4_frames, last, hvars>>

\* zip(frames[::2], frames[1::2]) stops with the shorter of the two slices
NumPairs(frames) == Len(frames) \div 2

\* lines 223-224, one iteration: s4_frames.append(interlace_arrays(first, second))
PairStep(c) ==
    /\ pc[c] = "l223"
    /\ k[c] <= NumPairs(cube[c])
    /\ LET first == cube[c][2 * k[c] - 1]
           second == cube[c][2 * k[c]]
           res == interlace_arrays(first, second)
       IN  IF res.status = "ok"
           THEN /\ s4_frames' = [s4_frames EXCEPT ![FramesCell(c)] =
                        Append(@, res.frame)]
                /\ k' = [k EXCEPT ![c] = @ + 1]
                /\ UNCHANGED <<pc, result>>
           ELSE /\ result' = [result EXCEPT ![c] = res]
                /\ pc' = [pc EXCEPT ![c] = "done"]
                /\ UNCHANGED <<s4_frames, k>>
    /\ UNCHANGED <<self, threads, inp, buf, cube, last, hvars>>

\* lines 225-230: np.array(s4_frames).reshape((h, 2*w)).astype(np.int32)
StackStep(c) ==
    /\ pc[c] = "l223"
    /\ k[c] > NumPairs(cube[c])
    /\ LET flat == Ravel(s4_frames[FramesCell(c)])
       IN  result' = [result EXCEPT ![c] =
                IF ReshapeFits(Len(flat), self.height * (2 * self.width))
                THEN Ok(AsType(Reshape2(flat, self.height, 2 * self.width)))
                ELSE Raise("ValueError", 229)]
    /\ pc' = [pc EXCEPT ![c] = "done"]
    /\ UNCHANGED <<self, threads, inp, buf, cube, k, s4_frames, last, hvars>>

\* the call is over: the caller has its outcome, the locals are gone.  The
\* observer may keep this call in last, to compare later calls with it.
Return(c) ==
    /\ pc[c] = "done"
    /\ last' \in {last, [inp |-> inp[c], result |-> result[c]]}
    /\ pc' = [pc EXCEPT ![c] = "idle"]
    /\ inp' = [inp EXCEPT ![c] = NoInput]
    /\ buf' = [buf EXCEPT ![c] = <<>>]
    /\ cube' = [cube EXCEPT ![c] = <<>>]
    /\ k' = [k EXCEPT ![c] = 0]
    /\ result' = [result EXCEPT ![c] = NoResult]
    /\ UNCHANGED <<self, threads, s4_frames, hvars>>

Next ==
    \E c \in threads :
        \/ Call(c)
        \/ NewList(c)
        \/ ReshapeStep(c)
        \/ PairStep(c)
        \/ StackStep(c)
        \/ Return(c)

Spec == Init /\ [][Next]_vars

\* two callers share the sensor object and run parseReadoff with no lock
InitConc ==
    /\ self \in Geometries
    /\ threads = Callers
    /\ S4Idle
    /\ HIdle
    /\ CtlIdle("00")

SpecConc == InitConc /\ [][Next]_vars

\* parseReadoff run alone from line 220 to line 230, as one function of the
\* raw buffer and the geometry
RECURSIVE InterlacePairs(_, _)
\* the loop of lines 223-224 from pair i on: the list it builds, or the
\* exception that ends it
InterlacePairs(frames, i) ==
    IF i > NumPairs(frames) THEN Ok(<<>>)
    ELSE LET res == interlace_arrays(frames[2 * i - 1], frames[2 * i])
         IN  IF res.status # "ok" THEN res
             ELSE LET rest == InterlacePairs(frames, i + 1)
                  IN  IF rest.status # "ok" THEN rest
                      ELSE Ok(<<res.frame>> \o rest.frame)

parseReadoff(raw, g) ==
    IF ~ReshapeFits(Len(raw), Size(g)) THEN Raise("ValueError", 221)
    ELSE LET loop == InterlacePairs(Reshape3(raw, g.nframes, g.height, g.width), 1)
         IN  IF loop.status # "ok" THEN loop
             ELSE LET flat == Ravel(loop.frame)
                  IN  IF ReshapeFits(Len(flat), g.height * (2 * g.width))
                      THEN Ok(AsType(Reshape2(flat, g.height, 2 * g.width)))
                      ELSE Raise("ValueError", 229)

\* ------------------------------------------------- hyperion.parseReadoff
\* The frames handed to hyperion.parseReadoff: a list of 2-D frames.
HGeometries == [nframes : 1..2, height : {1, 2}, width : {2, 4}]
HFrames ==
    {Reshape3(MakeRaw([kind |-> kd, off |-> 0], g), g.nframes, g.height, g.width) :
        kd \in Kinds, g \in HGeometries}

\* ca.partition(frames, columns) of the camera assembly: an opaque
\* collaborator, known only by the arguments it is applied to
CaPartition(frames, columns) ==
    [fn |-> "ca.partition", frames |-> frames, columns |-> columns]

\* the class attribute hyperion.columns (1) passed on instead of the argument
PartitionArgsClassColumns(frames, columns) == [frames |-> frames, columns |-> 1]

\* line 349: the arguments parseReadoff passes on to ca.partition
PartitionArgs(frames, columns) == [frames |-> frames, columns |-> columns]

HCall ==
    /\ hpc = "idle"
    /\ \E f \in HFrames, n \in 1..MaxColumns :
            hargs' = [frames |-> f, columns |-> n]
    /\ hpc' = "l349"
    /\ caCalls' = <<>>
    /\ hresult' = <<>>
    /\ UNCHANGED <<s4vars, ctlvars>>

\* line 349: return self.ca.partition(frames, columns)
HDelegate ==
    /\ hpc = "l349"
    /\ LET a == PartitionArgs(hargs.frames, hargs.columns)
       IN  /\ caCalls' = Append(caCalls, a)
           /\ hresult' = CaPartition(a.frames, a.columns)
    /\ hpc' = "done"
    /\ UNCHANGED <<hargs, s4vars, ctlvars>>

HReturn ==
    /\ hpc = "done"
    /\ hpc' = "idle"
    /\ hargs' = NoArgs
    /\ caCalls' = <<>>
    /\ hresult' = <<>>
    /\ UNCHANGED <<s4vars, ctlvars>>

\* -------------------------------------------- hyperion.selectTrigLatchEn
\* Python strings are sequences of one-character strings
Lowercase == <<"a", "b", "c", "d", "e", "f", "g", "h", "i", "j", "k", "l", "m",
               "n", "o", "p", "q", "r", "s", "t", "u", "v", "w", "x", "y", "z">>
Uppercase == <<"A", "B", "C", "D", "E", "F", "G", "H", "I", "J", "K", "L", "M",
               "N", "O", "P", "Q", "R", "S", "T", "U", "V", "W", "X", "Y", "Z">>

\* str.upper() and str.lower()
Upper(str) ==
    [i \in 1..Len(str) |->
        IF \E j \in 1..26 : Lowercase[j] = str[i]
        THEN Uppercase[CHOOSE j \in 1..26 : Lowercase[j] = str[i]]
        ELSE str[i]]
Lower(str) ==
    [i \in 1..Len(str) |->
        IF \E j \in 1..26 : Uppercase[j] = str[i]
        THEN Lowercase[CHOOSE j \in 1..26 : Uppercase[j] = str[i]]
        ELSE str[i]]

\* str[:3]
Take3(str) == SubSeq(str, 1, IF Len(str) < 3 THEN Len(str) ELSE 3)

\* sub in str
Contains(sub, str) ==
    \E i \in 0..(Len(str) - Len(sub)) : SubSeq(str, i + 1, i + Len(sub)) = sub

\* the arguments explored: None, the four documented names, case variants,
\* the two-bit codes, and strings that name nothing
TrigStrings ==
    { <<"n", "o", "n", "e">>, <<"l", "e", "f", "t">>, <<"r", "i", "g", "h", "t">>,
      <<"b", "o", "t", "h">>, <<"L", "E", "F", "T">>, <<"B", "o", "t", "h">>,
      <<"0", "0">>, <<"1", "0">>, <<"0", "1">>, <<"1", "1">>,
      <<"b", "o", "g", "u", "s">>, <<>> }
TrigArgs == {NoTrig} \cup {[none |-> FALSE, s |-> str] : str \in TrigStrings}

\* lines 182-184: None becomes the string "None"
TrigStr(trig) == IF trig.none THEN <<"N", "o", "n", "e">> ELSE trig.s

\* lines 185-200: the payload chosen for str(trig).  "unbound": the branch of
\* line 187 was taken and neither of its two ifs assigned payload;
\* "invalid": the else branch of line 194.
TrigPayload(str) ==
    LET u3 == Take3(Upper(str))
        l3 == Take3(Lower(str))
        U == Upper(str)
        LEF == <<"L", "E", "F">>
    IN  IF u3 = <<"N", "O", "N">> \/ Contains(<<"0", "0">>, str) THEN "00"
        ELSE IF u3 # <<"N", "O", "N">> /\ u3 # <<"B", "O", "T">>
        THEN LET p1 == IF Contains(LEF, U) \/ Contains(<<"1", "0">>, str)
                       THEN "10" ELSE "unbound"
             IN  IF Contains(LEF, U) \/ Contains(<<"0", "1">>, str)
                 THEN "01" ELSE p1
        ELSE IF l3 \in {<<"b", "o", "t", "h">>} \/ Contains(<<"1", "1">>, str)
        THEN "11"
        ELSE "invalid"

\* ca.setSubregister(name, payload): the subregister takes the payload
CaSetSubregister(name, payload) == <<Write(name, payload)>>

\* hyperion.selectTrigLatchEn(trig), lines 168-201.  It returns the error
\* string from the else branch, raises UnboundLocalError at line 201 when
\* payload was never assigned, and otherwise writes OSC_SELECT and returns
\* None.
selectTrigLatchEn(trig) ==
    /\ hpc = "idle"
    /\ LET payload == TrigPayload(TrigStr(trig))
           writes == IF payload \in {"invalid", "unbound"} THEN <<>>
                     ELSE CaSetSubregister("OSC_SELECT", payload)
       IN  /\ regs' = Apply(regs, writes)
           /\ lastOp' = [op |-> "selectTrigLatchEn",
                         arg |-> trig,
                         writes |-> writes,
                         ret |-> CASE payload = "invalid" -> "error message"
                                   [] payload = "unbound" -> "UnboundLocalError"
                                   [] OTHER -> "None",
                         pre |-> regs["OSC_SELECT"]]
    /\ UNCHANGED <<s4vars, hpc, hargs, caCalls, hresult>>

SelectTrigLatchEn == \E trig \in TrigArgs : selectTrigLatchEn(trig)

\* ------------------------- hyperion.columnTestEnable / columnTestDisable
\* ca.submitMessages(control_messages, label): every (register, value)
\* message is written, in order
CaSubmitMessages(messages) ==
    [i \in 1..Len(messages) |-> Write(messages[i][1], messages[i][2])]

\* line 161: control_messages of columnTestEnable
EnableMessages == << <<"FPA_DIVCLK_EN_ADDR", "00000001">> >>

\* line 165: control_messages of columnTestDisable
DisableMessages == << <<"FPA_DIVCLK_EN_ADDR", "00000001">> >>

\* a control method that submits its messages; the argument val of both
\* methods is never read
SubmitOp(name, messages) ==
    /\ hpc = "idle"
    /\ regs' = Apply(regs, CaSubmitMessages(messages))
    /\ lastOp' = [op |-> name,
                  arg |-> NoTrig,
                  writes |-> CaSubmitMessages(messages),
                  ret |-> "submitMessages",
                  pre |-> regs["OSC_SELECT"]]
    /\ UNCHANGED <<s4vars, hpc, hargs, caCalls, hresult>>

\* hyperion.columnTestEnable, lines 160-162
columnTestEnable == SubmitOp("columnTestEnable", EnableMessages)

\* hyperion.columnTestDisable, lines 164-166
columnTestDisable == SubmitOp("columnTestDisable", DisableMessages)

HInit ==
    /\ self = DefaultGeometry
    /\ threads = {}
    /\ S4Idle
    /\ HIdle
    /\ \E osc \in OscCodes : CtlIdle(osc)

HNext ==
    \/ HCall
    \/ HDelegate
    \/ HReturn
    \/ SelectTrigLatchEn
    \/ columnTestEnable
    \/ columnTestDisable

SpecHyperion == HInit /\ [][HNext]_vars

\* ======================================================================
\* Properties
\* ======================================================================
\* a caller whose locals belong to the call in progress
InCall(c) == pc[c] \in {"l223", "done"}
Done(c) == pc[c] = "done"
LengthMatches(c) == Len(buf[c]) = Size(self)
\* the column-group width of the sensor object's geometry
group_width == self.width \div NumGroups

\* out is A and B interleaved by column groups of width g
InterleaveRule(out, A, B, g) ==
    /\ Len(out) = Len(A)
    /\ \A r \in 1..Len(out) :
        /\ Len(out[r]) = 2 * Len(A[r])
        /\ \A col \in 0..(Len(out[r]) - 1) :
            LET kk == col \div (2 * g)
                j == col % g
            IN  out[r][col + 1] =
                    IF (col \div g) % 2 = 0
                    THEN A[r][kk * g + j + 1]
                    ELSE B[r][kk * g + j + 1]

\* C1: every pair (A, B) that went through the interleave gives a frame whose
\* column groups are A_group_0, B_group_0, A_group_1, B_group_1, ...: pixel
\* (r, c) is A[r][k*g + j] when c div g is even and B[r][k*g + j] when odd,
\* with k = c div 2g and j = c mod g; a returned frame obeys the same rule.
C1_AlternatingGroups ==
    \A c \in threads :
        InCall(c) =>
            /\ \A m \in 1..Len(s4_frames[FramesCell(c)]) :
                InterleaveRule(s4_frames[FramesCell(c)][m],
                               cube[c][2 * m - 1], cube[c][2 * m], group_width)
            /\ result[c].status = "ok" =>
                InterleaveRule(result[c].frame, cube[c][1], cube[c][2], group_width)

\* C1 witness: a pair of subframes with all samples distinct was interleaved
\* and the frame returned
C1_Witness ==
    \E c \in threads :
        /\ Done(c)
        /\ inp[c].kind = "index"
        /\ result[c].status = "ok"
        /\ Len(s4_frames[FramesCell(c)]) = 1

ValidInput(c) ==
    /\ LengthMatches(c)
    /\ self.nframes % 2 = 0
    /\ self.width % GroupWidth = 0

C3_SmallGeometry ==
    \A c \in threads :
        (/\ Done(c)
         /\ self = [nframes |-> 2, height |-> 4, width |-> 4]
         /\ inp[c] = [kind |-> "sub", off |-> 0]) =>
            /\ result[c].status = "ok"
            /\ result[c].frame = [r \in 1..4 |-> <<1, 1, 2, 2, 1, 1, 2, 2>>]

\* C4: with nframes=4 and the sensor's own height and width, pairs (0,1) and
\* (2,3) are reconstructed by the alternating rule and joined along the
\* column axis: the frame has height rows of 4*width columns, the left half
\* of row r from row r of pair (0,1), the right half from row r of pair (2,3).
C4_MultiPair ==
    \A c \in threads :
        (/\ Done(c)
         /\ LengthMatches(c)
         /\ self = [nframes |-> 4, height |-> ReqHeight, width |-> ReqWidth]) =>
            /\ result[c].status = "ok"
            /\ Len(result[c].frame) = self.height
            /\ \A r \in 1..Len(result[c].frame) :
                    Len(result[c].frame[r]) = 4 * self.width
            /\ InterleaveRule(
                    [r \in 1..self.height |->
                        SubSeq(result[c].frame[r], 1, 2 * self.width)],
                    cube[c][1], cube[c][2], group_width)
            /\ InterleaveRule(
                    [r \in 1..self.height |->
                        SubSeq(result[c].frame[r], 2 * self.width + 1, 4 * self.width)],
                    cube[c][3], cube[c][4], group_width)

\* C5: a raw buffer whose length is not nframes*height*width makes the call
\* fail at the reshape of line 221 with numpy's shape-mismatch error; the
\* call never gets past that line and returns no frame.
C5_ShapeMismatch ==
    \A c \in threads :
        (InCall(c) /\ ~LengthMatches(c)) =>
            /\ Done(c)
            /\ result[c] = Raise("ValueError", 221)
            /\ result[c].frame = NoFrame
            /\ cube[c] = <<>>

\* C5 witness: a call with a buffer one sample short has failed
C5_Witness ==
    \E c \in threads :
        /\ Done(c)
        /\ Len(buf[c]) = Size(self) - 1
        /\ result[c].status = "ValueError"

\* C6: an odd nframes with a buffer of matching length makes the call fail
\* and return no frame; the unpaired last subframe is never dropped silently.
C6_OddFrameCount ==
    \A c \in threads :
        (Done(c) /\ LengthMatches(c) /\ self.nframes % 2 = 1) =>
            /\ result[c].status \in {"ValueError", "AssertionError"}
            /\ result[c].frame = NoFrame

\* C7: with an otherwise valid input (matching length, nframes even), a width
\* that is not a multiple of the group width makes the call fail with the
\* geometry assertion of interlace_arrays, which is not the error class of a
\* shape mismatch, and return no frame.
C7_InvalidGeometry ==
    \A c \in threads :
        (/\ Done(c)
         /\ LengthMatches(c)
         /\ self.nframes % 2 = 0
         /\ self.width % GroupWidth # 0) =>
            /\ result[c].status = "AssertionError"
            /\ result[c].site \in {202, 203}
            /\ result[c].status # Raise("ValueError", 221).status
            /\ result[c].frame = NoFrame

\* C7 witness: such a call has failed
C7_Witness ==
    \E c \in threads :
        /\ Done(c)
        /\ LengthMatches(c)
        /\ self.nframes % 2 = 0
        /\ self.width % GroupWidth # 0
        /\ result[c].status = "AssertionError"

\* the raw buffer holds what the caller put into it
BufIntact == \A c \in threads : pc[c] # "idle" => buf[c] = MakeRaw(inp[c], self)

\* a call that has ended has the outcome of the earlier call with its input
Repeatable ==
    /\ \A c \in threads :
        (Done(c) /\ last.inp = inp[c]) => result[c] = last.result
    /\ \A c, d \in threads :
        (Done(c) /\ Done(d) /\ inp[c] = inp[d]) => result[c] = result[d]

\* C8: parseReadoff is a pure function of its inputs: no step changes the
\* sensor object's nframes, height or width, the raw buffer keeps its
\* contents during the call, and a call returns what an earlier call with the
\* same input and geometry returned, whatever calls were made in between.
C8_Pure == [](BufIntact /\ Repeatable) /\ [][self' = self]_vars

\* C8 witness: a frame was returned for an input that an earlier call had
\* been given
C8_Witness ==
    \E c \in threads :
        /\ Done(c)
        /\ last.inp = inp[c]
        /\ result[c].status = "ok"
        /\ Len(s4_frames[FramesCell(c)]) = 1

\* C9: under every interleaving of concurrent callers, a caller's outcome is
\* the outcome of parseReadoff run alone on its raw buffer.
C9_SoloResult ==
    \A c \in threads :
        Done(c) => result[c] = parseReadoff(buf[c], self)

\* C9 witness: both callers are inside parseReadoff with different inputs,
\* one of them with its frame ready
C9_Witness ==
    /\ threads = Callers
    /\ \E c, d \in threads :
        /\ c # d
        /\ Done(c)
        /\ result[c].status = "ok"
        /\ pc[d] \in {"l221", "l223", "done"}
        /\ inp[c] # inp[d]

\* C10: hyperion.parseReadoff returns exactly what ca.partition returns for
\* the frames and columns it was called with, and calls it once with these
\* two arguments, the frames as they came in.
C10_Delegates ==
    hpc = "done" =>
        /\ hresult = CaPartition(hargs.frames, hargs.columns)
        /\ caCalls = <<[frames |-> hargs.frames, columns |-> hargs.columns]>>

\* C10 witness: a call with two frames and more than one column has returned
C10_Witness ==
    /\ hpc = "done"
    /\ Len(hargs.frames) = 2
    /\ hargs.columns > 1
    /\ hresult.fn = "ca.partition"

\* the payload the documentation of selectTrigLatchEn gives each name
Documented(str) ==
    CASE Lower(str) = <<"n", "o", "n", "e">> -> "00"
      [] Lower(str) = <<"l", "e", "f", "t">> -> "10"
      [] Lower(str) = <<"r", "i", "g", "h", "t">> -> "01"
      [] Lower(str) = <<"b", "o", "t", "h">> -> "11"
      [] OTHER -> "other"

\* C11: selectTrigLatchEn accepts 'none' (and the default None), 'left',
\* 'right' and 'both' and for each writes OSC_SELECT exactly once, with
\* payload '00', '10', '01' and '11'; for a parameter that names none of them
\* (and holds no two-bit code) it returns the error message and OSC_SELECT is
\* not written and keeps its value.
C11_TrigLatch ==
    lastOp.op = "selectTrigLatchEn" =>
        LET str == TrigStr(lastOp.arg)
        IN  /\ Documented(str) # "other" =>
                /\ lastOp.writes = <<Write("OSC_SELECT", Documented(str))>>
                /\ regs["OSC_SELECT"] = Documented(str)
            /\ str \in {<<"b", "o", "g", "u", "s">>, <<>>} =>
                /\ lastOp.ret = "error message"
                /\ lastOp.writes = <<>>
                /\ regs["OSC_SELECT"] = lastOp.pre

\* the last value written to a register by the last control call
LastWritten(name) ==
    LET ws == lastOp.writes
        idx == {i \in 1..Len(ws) : ws[i][1] = name}
    IN  ws[CHOOSE i \in idx : \A j \in idx : j <= i][2]

\* C12: after any sequence of columnTestEnable and columnTestDisable calls,
\* the last value written to FPA_DIVCLK_EN_ADDR (and the value it holds) is
\* '00000001' if the last call was columnTestEnable and the default that
\* sensorSpecific installs, '00000000', if it was columnTestDisable.
C12_ColumnTest ==
    /\ lastOp.op = "columnTestEnable" =>
        /\ LastWritten("FPA_DIVCLK_EN_ADDR") = "00000001"
        /\ regs["FPA_DIVCLK_EN_ADDR"] = "00000001"
    /\ lastOp.op = "columnTestDisable" =>
        /\ LastWritten("FPA_DIVCLK_EN_ADDR") = DefaultOf("FPA_DIVCLK_EN_ADDR")
        /\ regs["FPA_DIVCLK_EN_ADDR"] = "00000000"

\* how often value v occurs in the flat sequence seq
Occurrences(v, seq) == Cardinality({i \in 1..Len(seq) : seq[i] = v})

\* C13: a frame that parseReadoff returns is a permutation of the raw
\* capture: it has as many positions as the capture has samples, and every
\* 16-bit sample value occurs in it exactly as often as in the capture, so
\* no sample is lost, repeated or changed by the widening to int32.
C13_Permutation ==
    \A c \in threads :
        (Done(c) /\ result[c].status = "ok") =>
            LET out == Concat(result[c].frame)
            IN  /\ Len(out) = Len(buf[c])
                /\ \A i \in 1..Len(buf[c]) :
                        /\ buf[c][i] \in 0..MaxPixel
                        /\ Occurrences(buf[c][i], out) = Occurrences(buf[c][i], buf[c])

====
